---- MODULE Spec2Model ----
(***************************************************************************)
(* Model of the Astra DB destination connector                             *)
(* (unstructured/ingest/v2/processes/connectors/astradb.py):               *)
(*   - AstraDBUploadStager.conform_dict / run   (staging transform)        *)
(*   - AstraDBUploaderConfig                    (uploader configuration)   *)
(*   - AstraDBUploader.get_collection / run     (provisioning + batches)   *)
(* The remote store (astrapy) and the batch_generator helper are not part  *)
(* of the connector file; they are modelled from the specification.        *)
(***************************************************************************)
EXTENDS Integers, Sequences, FiniteSets, TLC

\* ------------------------------------------------------------------ bounds
MaxDim == 2
MaxBatch == 2
MaxFiles == 2
MaxFileLen == 2
MaxRemoteDocs == 2
MaxPartial == 1
MaxElements == 2

\* ------------------------------------------------------- program constants
DefaultBatchSize == 20

\* Python None / JSON null for scalar values
None == "None"

\* Optional[...] values: <<>> is None, <<x>> is the value x
Absent == <<>>

VARIABLES
    \* ---- uploader
    upload_config,     \* AstraDBUploader.upload_config (Absent before construction)
    contents,          \* run(contents): the staged files handed to the run
    pc,                \* position of AstraDBUploader.run
    idx,               \* index of the file the read loop is at
    elements_dict,     \* run's local list of records read so far
    it,                \* records the batch generator has not handed out yet
    collection,        \* the handle returned by get_collection (Absent before)
    createCalls,       \* create_collection calls issued by this run
    attempts,          \* insert_many calls issued by this run, with their outcome
    error,             \* the exception that ended the run (Absent if none)
    remote,            \* the remote store: the destination collection
    remoteAtStart,     \* the remote store as it was when this run started
    \* ---- stager
    st_pc,             \* position of AstraDBUploadStager.run
    elements_contents, \* the parsed input array (elements are mutated in place)
    input_elements,    \* the input file's array as it was on disk
    conformed_elements,\* run's local output list
    st_i,              \* loop index of the conform loop / of the writer
    output_file,       \* the file at output_dir/output_filename.json
    st_error           \* the exception that ended the stager run

uvars == <<upload_config, contents, pc, idx, elements_dict, it, collection,
           createCalls, attempts, error, remote, remoteAtStart>>
svars == <<st_pc, elements_contents, input_elements, conformed_elements, st_i,
           output_file, st_error>>
vars == <<upload_config, contents, pc, idx, elements_dict, it, collection,
          createCalls, attempts, error, remote, remoteAtStart,
          st_pc, elements_contents, input_elements, conformed_elements, st_i,
          output_file, st_error>>

\* ---------------------------------------------------------------- helpers
Min(a, b) == IF a < b THEN a ELSE b

Take(s, n) == SubSeq(s, 1, Min(n, Len(s)))

Drop(s, n) == SubSeq(s, Min(n, Len(s)) + 1, Len(s))

RECURSIVE Flatten(_)
Flatten(ss) == IF ss = <<>> THEN <<>> ELSE Head(ss) \o Flatten(Tail(ss))

\* ------------------------------------------------------------ input space
CollectionNames == {"elements"}

Dims == 0..MaxDim

EmptyPolicy == {}

DenyPolicy == {<<"deny", "metadata">>}

Policies == {Absent, <<EmptyPolicy>>, <<DenyPolicy>>}

BatchSizes == (0..MaxBatch) \cup {DefaultBatchSize}

\* a staged file: unreadable/malformed, or a JSON array of records; the
\* j-th record of the i-th file is <<i, j>>
Malformed == [ok |-> FALSE, records |-> <<>>]

File(i, n) == [ok |-> TRUE, records |-> [j \in 1..n |-> <<i, j>>]]

MkContents(ls) == [i \in 1..Len(ls) |-> IF ls[i] < 0 THEN Malformed ELSE File(i, ls[i])]

SmallLens == (0..MaxFileLen) \cup {-1}

ExampleLens == {20, 25}

LenSeqs(L) == UNION {[1..k -> L] : k \in 0..MaxFiles}

ContentsFor(cfg) ==
    IF cfg.batch_size = DefaultBatchSize
    THEN {MkContents(ls) : ls \in LenSeqs(ExampleLens)}
    ELSE {MkContents(ls) : ls \in LenSeqs(SmallLens)}

AllContents == {MkContents(ls) : ls \in LenSeqs(SmallLens \cup ExampleLens)}

\* the inputs of the repeated runs: one staged file, batch sizes 1 and 2
RerunContents == {MkContents(ls) : ls \in [1..1 -> SmallLens]}

RerunBatchSizes == {1, 2}

NoRemote == [exists |-> FALSE, dimension |-> 0, docs |-> <<>>]

\* ============================================================== UPLOADER

\* AstraDBUploaderConfig(collection_name, embedding_dimension,
\*                       requested_indexing_policy, batch_size): a plain
\* dataclass, every argument is stored as given.
AstraDBUploaderConfig(name, dim, policy, bs) ==
    [collection_name |-> name,
     embedding_dimension |-> dim,
     requested_indexing_policy |-> policy,
     batch_size |-> bs]

ConstructConfig(name, dim, policy, bs) ==
    /\ pc = "idle"
    /\ Len(remote.docs) <= MaxRemoteDocs
    /\ upload_config' = <<AstraDBUploaderConfig(name, dim, policy, bs)>>
    /\ pc' = "configured"
    /\ UNCHANGED <<contents, idx, elements_dict, it, collection, createCalls,
                   attempts, error, remote, remoteAtStart>>
    /\ UNCHANGED svars

\* run(contents): entry, elements_dict = []
RunStart(c) ==
    /\ pc = "configured"
    /\ c \in ContentsFor(upload_config[1])
    /\ contents' = c
    /\ elements_dict' = <<>>
    /\ idx' = 1
    /\ it' = <<>>
    /\ collection' = Absent
    /\ createCalls' = <<>>
    /\ attempts' = <<>>
    /\ error' = Absent
    /\ remoteAtStart' = remote
    /\ pc' = "reading"
    /\ UNCHANGED <<upload_config, remote>>
    /\ UNCHANGED svars

\* list.extend
Extend(xs, ys) == xs \o ys

\* one iteration of `for content in contents`: open + json.load + extend
ReadFile ==
    /\ pc = "reading"
    /\ idx <= Len(contents)
    /\ IF contents[idx].ok
       THEN /\ elements_dict' = Extend(elements_dict, contents[idx].records)
            /\ idx' = idx + 1
            /\ UNCHANGED <<pc, error>>
       ELSE /\ pc' = "failed"
            /\ error' = <<[kind |-> "ReadError", cause |-> "json"]>>
            /\ UNCHANGED <<elements_dict, idx>>
    /\ UNCHANGED <<upload_config, contents, it, collection, createCalls,
                   attempts, remote, remoteAtStart>>
    /\ UNCHANGED svars

\* the read loop is exhausted: logger.info(...), astra_batch_size = ...
LogTotal ==
    /\ pc = "reading"
    /\ idx > Len(contents)
    /\ pc' = "provisioning"
    /\ UNCHANGED <<upload_config, contents, idx, elements_dict, it, collection,
                   createCalls, attempts, error, remote, remoteAtStart>>
    /\ UNCHANGED svars

\* options = {"indexing": requested_indexing_policy} if requested_indexing_policy else None
OptionsIfNotNone(policy) ==
    IF policy # Absent THEN <<[indexing |-> policy[1]]>> ELSE Absent

Options(policy) ==
    IF policy # Absent /\ policy[1] # {} THEN <<[indexing |-> policy[1]]>> ELSE Absent

\* the arguments of astra_db.create_collection(...)
CreateArgsFixedDim(cfg) ==
    [collection_name |-> cfg.collection_name,
     dimension |-> 1,
     options |-> Options(cfg.requested_indexing_policy)]

CreateArgs(cfg) ==
    [collection_name |-> cfg.collection_name,
     dimension |-> cfg.embedding_dimension,
     options |-> Options(cfg.requested_indexing_policy)]

\* the remote store's answer to create_collection(name, dimension, options):
\* the set of possible outcomes [ok, cause, remote']
CreateCollectionOutcomes(r, args) ==
    {[ok |-> FALSE, cause |-> "auth", remote |-> r]}
    \cup
    (IF r.exists /\ r.dimension # args.dimension
     THEN {[ok |-> FALSE, cause |-> "dimension", remote |-> r]}
     ELSE {[ok |-> TRUE, cause |-> "none",
            remote |-> IF r.exists THEN r
                       ELSE [exists |-> TRUE, dimension |-> args.dimension,
                             docs |-> <<>>]]})

\* collection = self.get_collection()
ProvisionIfAny ==
    /\ pc = "provisioning"
    /\ IF elements_dict = <<>>
       THEN /\ pc' = "batching"
            /\ it' = elements_dict
            /\ UNCHANGED <<createCalls, remote, collection, error>>
       ELSE \E o \in CreateCollectionOutcomes(remote, CreateArgs(upload_config[1])) :
            /\ createCalls' = Append(createCalls, CreateArgs(upload_config[1]))
            /\ remote' = o.remote
            /\ IF o.ok
               THEN /\ collection' = <<upload_config[1].collection_name>>
                    /\ it' = elements_dict
                    /\ pc' = "batching"
                    /\ UNCHANGED error
               ELSE /\ pc' = "failed"
                    /\ error' = <<[kind |-> "ProvisioningError", cause |-> o.cause]>>
                    /\ UNCHANGED <<collection, it>>
    /\ UNCHANGED <<upload_config, contents, idx, elements_dict, attempts,
                   remoteAtStart>>
    /\ UNCHANGED svars

GetCollection ==
    /\ pc = "provisioning"
    /\ \E o \in CreateCollectionOutcomes(remote, CreateArgs(upload_config[1])) :
        /\ createCalls' = Append(createCalls, CreateArgs(upload_config[1]))
        /\ remote' = o.remote
        /\ IF o.ok
           THEN /\ collection' = <<upload_config[1].collection_name>>
                /\ it' = elements_dict
                /\ pc' = "batching"
                /\ UNCHANGED error
           ELSE /\ pc' = "failed"
                /\ error' = <<[kind |-> "ProvisioningError", cause |-> o.cause]>>
                /\ UNCHANGED <<collection, it>>
    /\ UNCHANGED <<upload_config, contents, idx, elements_dict, attempts,
                   remoteAtStart>>
    /\ UNCHANGED svars

\* astra_batch_size = self.upload_config.batch_size
AstraBatchSizePlusOne(cfg) == cfg.batch_size + 1

AstraBatchSize(cfg) == cfg.batch_size

\* batch_generator(iterable, batch_size): the possible results of asking the
\* generator for its next chunk. For batch_size >= 1: the next batch_size
\* records (fewer at the end), exhausted when none is left. A batch size
\* below 1 is outside what the helper is documented for: it may raise or
\* yield nothing.
BatchGeneratorNext(rest, bs) ==
    IF bs >= 1
    THEN {IF rest = <<>>
          THEN [kind |-> "exhausted", chunk |-> <<>>, rest |-> rest]
          ELSE [kind |-> "chunk", chunk |-> Take(rest, bs), rest |-> Drop(rest, bs)]}
    ELSE {[kind |-> "exhausted", chunk |-> <<>>, rest |-> rest],
          [kind |-> "raise", chunk |-> <<>>, rest |-> rest]}

\* head of `for chunk in batch_generator(...)` and the call collection.insert_many(chunk)
NextChunk ==
    /\ pc = "batching"
    /\ \E g \in BatchGeneratorNext(it, AstraBatchSize(upload_config[1])) :
        /\ it' = g.rest
        /\ CASE g.kind = "chunk" ->
                  /\ attempts' = Append(attempts, [chunk |-> g.chunk, status |-> "pending"])
                  /\ pc' = "inserting"
                  /\ UNCHANGED error
             [] g.kind = "exhausted" ->
                  /\ pc' = "done"
                  /\ UNCHANGED <<attempts, error>>
             [] g.kind = "raise" ->
                  /\ pc' = "failed"
                  /\ error' = <<[kind |-> "ValueError", cause |-> "batch_size"]>>
                  /\ UNCHANGED attempts
    /\ UNCHANGED <<upload_config, contents, idx, elements_dict, collection,
                   createCalls, remote, remoteAtStart>>
    /\ UNCHANGED svars

SetLastStatus(as, s) == [as EXCEPT ![Len(as)].status = s]

\* collection.insert_many(chunk) returns: the chunk is stored
InsertManyReturns ==
    /\ pc = "inserting"
    /\ remote' = [remote EXCEPT !.docs = @ \o attempts[Len(attempts)].chunk]
    /\ attempts' = SetLastStatus(attempts, "ok")
    /\ pc' = "batching"
    /\ UNCHANGED <<upload_config, contents, idx, elements_dict, it, collection,
                   createCalls, error, remoteAtStart>>
    /\ UNCHANGED svars

\* what the remote store may have kept of a chunk whose insert_many failed
PartialLens(chunk) == {n \in 0..(Len(chunk) - 1) : n <= MaxPartial}

\* collection.insert_many(chunk) raises: nothing catches it in run
InsertManySkips(n) ==
    /\ pc = "inserting"
    /\ n \in PartialLens(attempts[Len(attempts)].chunk)
    /\ remote' = [remote EXCEPT !.docs = @ \o Take(attempts[Len(attempts)].chunk, n)]
    /\ attempts' = SetLastStatus(attempts, "failed")
    /\ pc' = "batching"
    /\ UNCHANGED <<upload_config, contents, idx, elements_dict, it, collection,
                   createCalls, error, remoteAtStart>>
    /\ UNCHANGED svars

InsertManyRaises(n) ==
    /\ pc = "inserting"
    /\ n \in PartialLens(attempts[Len(attempts)].chunk)
    /\ remote' = [remote EXCEPT !.docs = @ \o Take(attempts[Len(attempts)].chunk, n)]
    /\ attempts' = SetLastStatus(attempts, "failed")
    /\ pc' = "failed"
    /\ error' = <<[kind |-> "WriteError", cause |-> "insert_many"]>>
    /\ UNCHANGED <<upload_config, contents, idx, elements_dict, it, collection,
                   createCalls, remoteAtStart>>
    /\ UNCHANGED svars

\* run has returned or raised: its locals and the handle are gone
RunEnd ==
    /\ pc \in {"done", "failed"}
    /\ pc' = "idle"
    /\ upload_config' = Absent
    /\ contents' = <<>>
    /\ idx' = 1
    /\ elements_dict' = <<>>
    /\ it' = <<>>
    /\ collection' = Absent
    /\ createCalls' = <<>>
    /\ attempts' = <<>>
    /\ error' = Absent
    /\ remoteAtStart' = remote
    /\ UNCHANGED remote
    /\ UNCHANGED svars

\* ================================================================ STAGER

\* an ElementRecord: a mapping from some of the keys to values (JSON null included)
Keys == {"embeddings", "text", "source"}

\* the values a key may carry in the input (None is JSON null)
Vals(k) ==
    CASE k = "embeddings" -> {None, "vec"}
      [] k = "text" -> {"txt"}
      [] OTHER -> {"a", "b"}

Elements == UNION {{e \in [D -> {None, "vec", "txt", "a", "b"}] : \A k \in D : e[k] \in Vals(k)} :
                   D \in SUBSET Keys}

InputArrays == UNION {[1..n -> Elements] : n \in 0..MaxElements}

\* dict.pop(key, None): the value (None when the key is missing) and the
\* dict without the key
PopKeep(d, k) ==
    [value |-> IF k \in DOMAIN d THEN d[k] ELSE None,
     rest |-> d]

Pop(d, k) ==
    [value |-> IF k \in DOMAIN d THEN d[k] ELSE None,
     rest |-> [x \in (DOMAIN d) \ {k} |-> d[x]]]

\* conform_dict: the pops run in the order the dict literal evaluates them
conform_dict(element_dict) ==
    LET p1 == Pop(element_dict, "embeddings")
        p2 == Pop(p1.rest, "text")
    IN  ("$vector" :> p1.value) @@ ("content" :> p2.value) @@ ("metadata" :> p2.rest)

\* with open(elements_filepath): json.load succeeds on a JSON array
StagerLoad(arr) ==
    /\ st_pc = "idle"
    /\ input_elements' = arr
    /\ elements_contents' = arr
    /\ conformed_elements' = <<>>
    /\ st_i' = 1
    /\ st_error' = Absent
    /\ st_pc' = "conforming"
    /\ UNCHANGED output_file
    /\ UNCHANGED uvars

\* json.load raises on malformed input: run ends before the output is opened
StagerLoadFails ==
    /\ st_pc = "idle"
    /\ input_elements' = <<>>
    /\ elements_contents' = <<>>
    /\ conformed_elements' = <<>>
    /\ st_i' = 1
    /\ st_error' = <<"ParseError">>
    /\ st_pc' = "failed"
    /\ UNCHANGED output_file
    /\ UNCHANGED uvars

\* list.append
ListPrepend(xs, x) == <<x>> \o xs

ListAppend(xs, x) == Append(xs, x)

\* one iteration of `for element in elements_contents`; conform_dict pops
\* from the element itself, so the parsed element is left as its metadata
ConformStep ==
    /\ st_pc = "conforming"
    /\ st_i <= Len(elements_contents)
    /\ conformed_elements' =
          ListAppend(conformed_elements, conform_dict(elements_contents[st_i]))
    /\ elements_contents' =
          [elements_contents EXCEPT ![st_i] = conform_dict(@)["metadata"]]
    /\ st_i' = st_i + 1
    /\ UNCHANGED <<st_pc, input_elements, output_file, st_error>>
    /\ UNCHANGED uvars

\* open(output_path, "w"): the file is created or truncated in place
OpenOutput ==
    /\ st_pc = "conforming"
    /\ st_i > Len(elements_contents)
    /\ output_file' = [state |-> "partial", written |-> <<>>]
    /\ st_i' = 1
    /\ st_pc' = "writing"
    /\ UNCHANGED <<elements_contents, input_elements, conformed_elements, st_error>>
    /\ UNCHANGED uvars

\* open(output_path, "w") raises (unwritable output directory)
OpenOutputFails ==
    /\ st_pc = "conforming"
    /\ st_i > Len(elements_contents)
    /\ st_error' = <<"IOError">>
    /\ st_pc' = "failed"
    /\ UNCHANGED <<elements_contents, input_elements, conformed_elements, st_i,
                   output_file>>
    /\ UNCHANGED uvars

\* json.dump streams the array into the open file, one record after another
WriteStep ==
    /\ st_pc = "writing"
    /\ st_i <= Len(conformed_elements)
    /\ output_file' = [output_file EXCEPT !.written = Append(@, conformed_elements[st_i])]
    /\ st_i' = st_i + 1
    /\ UNCHANGED <<st_pc, elements_contents, input_elements, conformed_elements,
                   st_error>>
    /\ UNCHANGED uvars

\* the write raises or the call is interrupted: the `with` block closes the
\* file as it is
WriteFails ==
    /\ st_pc = "writing"
    /\ st_error' = <<"IOError">>
    /\ st_pc' = "failed"
    /\ UNCHANGED <<elements_contents, input_elements, conformed_elements, st_i,
                   output_file>>
    /\ UNCHANGED uvars

\* json.dump has written the closing bracket, the file is closed, return output_path
CloseOutput ==
    /\ st_pc = "writing"
    /\ st_i > Len(conformed_elements)
    /\ output_file' = [output_file EXCEPT !.state = "complete"]
    /\ st_pc' = "done"
    /\ UNCHANGED <<elements_contents, input_elements, conformed_elements, st_i,
                   st_error>>
    /\ UNCHANGED uvars

UploaderInit ==
    /\ upload_config = Absent
    /\ contents = <<>>
    /\ pc = "idle"
    /\ idx = 1
    /\ elements_dict = <<>>
    /\ it = <<>>
    /\ collection = Absent
    /\ createCalls = <<>>
    /\ attempts = <<>>
    /\ error = Absent
    /\ remote = NoRemote
    /\ remoteAtStart = NoRemote

StagerInit ==
    /\ st_pc = "idle"
    /\ elements_contents = <<>>
    /\ input_elements = <<>>
    /\ conformed_elements = <<>>
    /\ st_i = 1
    /\ output_file = [state |-> "absent", written |-> <<>>]
    /\ st_error = Absent

Init == UploaderInit /\ StagerInit

\* one pipeline run: a configuration is constructed, the uploader runs once
Next ==
    \/ \E name \in CollectionNames, dim \in Dims, policy \in Policies, bs \in BatchSizes :
          ConstructConfig(name, dim, policy, bs)
    \/ \E c \in AllContents : RunStart(c)
    \/ ReadFile
    \/ LogTotal
    \/ GetCollection
    \/ NextChunk
    \/ InsertManyReturns
    \/ \E n \in 0..MaxPartial : InsertManyRaises(n)

Spec == Init /\ [][Next]_vars

\* repeated pipeline runs against the same remote store, each with its own
\* configuration and one staged file
RerunNext ==
    \/ \E name \in CollectionNames, dim \in Dims, bs \in RerunBatchSizes :
          ConstructConfig(name, dim, Absent, bs)
    \/ \E c \in RerunContents : RunStart(c)
    \/ ReadFile
    \/ LogTotal
    \/ GetCollection
    \/ NextChunk
    \/ InsertManyReturns
    \/ \E n \in 0..MaxPartial : InsertManyRaises(n)
    \/ RunEnd

RerunSpec == Init /\ [][RerunNext]_vars

StagerNext ==
    \/ \E arr \in InputArrays : StagerLoad(arr)
    \/ StagerLoadFails
    \/ ConformStep
    \/ OpenOutput
    \/ OpenOutputFails
    \/ WriteStep
    \/ WriteFails
    \/ CloseOutput

StagerSpec == Init /\ [][StagerNext]_vars

\* ============================================================ PROPERTIES

\* the records of all staged files of the run, in file order
Staged == Flatten([i \in 1..Len(contents) |-> contents[i].records])

\* the arguments of the insert_many calls of the run, concatenated in call order
Submitted == Flatten([i \in 1..Len(attempts) |-> attempts[i].chunk])

Sizes == [i \in 1..Len(attempts) |-> Len(attempts[i].chunk)]

CeilDiv(n, b) == (n + b - 1) \div b

ErrorKind == IF error = Absent THEN "none" ELSE error[1].kind

\* C1: with N staged records and batch_size b >= 1, a successful run has
\* issued exactly ceil(N/b) insert_many calls; every call but the last
\* carries b records, the last carries N - b*(ceil(N/b)-1) (between 1 and b),
\* no call carries an empty chunk, N = 0 gives no call, and b = 20 with
\* N = 45 gives the sizes 20, 20, 5.
C1_BatchCountAndSizes ==
    /\ \A i \in 1..Len(attempts) : Len(attempts[i].chunk) >= 1
    /\ (pc = "done" /\ upload_config[1].batch_size >= 1) =>
          LET N == Len(Staged)
              b == upload_config[1].batch_size
              k == CeilDiv(N, b)
          IN  /\ Len(attempts) = k
              /\ \A i \in 1..k :
                    /\ attempts[i].status = "ok"
                    /\ Sizes[i] = IF i < k THEN b ELSE N - b * (k - 1)
                    /\ Sizes[i] \in 1..b
              /\ (N = 0 => attempts = <<>>)
              /\ (b = 20 /\ N = 45 => Sizes = <<20, 20, 5>>)

C1_Witness ==
    /\ pc = "done"
    /\ upload_config[1].batch_size = 20
    /\ Len(Staged) = 45
    /\ Len(contents) = 2
    /\ Len(attempts) = 3

\* C2: in a successful run the insert_many arguments, concatenated in call
\* order, are exactly the staged records in file order (each submitted once,
\* none dropped, duplicated or reordered), and a call is issued only after
\* the previous one has returned.
C2_EverythingSubmittedInOrder ==
    /\ pc = "done" =>
          /\ Submitted = Staged
          /\ \A i \in 1..Len(attempts) : attempts[i].status = "ok"
    /\ \A i \in 1..Len(attempts) :
          attempts[i].status = "pending" => (i = Len(attempts) /\ pc = "inserting")

\* C3: when insert_many fails for chunk k, the run has failed with that
\* error, chunk k is the last insert_many of the run (nothing after it, no
\* second try), and the chunks 1..k-1 are still in the remote collection
\* right after what it held when the run started.
C3_WriteErrorAborts ==
    \A k \in 1..Len(attempts) :
        attempts[k].status = "failed" =>
            /\ k = Len(attempts)
            /\ pc = "failed"
            /\ ErrorKind = "WriteError"
            /\ \A i \in 1..(k - 1) : attempts[i].status = "ok"
            /\ LET before == remoteAtStart.docs
                                \o Flatten([i \in 1..(k - 1) |-> attempts[i].chunk])
               IN  /\ Len(remote.docs) >= Len(before)
                   /\ SubSeq(remote.docs, 1, Len(before)) = before

C3_Witness ==
    /\ pc = "failed"
    /\ ErrorKind = "WriteError"
    /\ Len(attempts) = 2
    /\ attempts[2].status = "failed"
    /\ it # <<>>
    /\ remote.docs = remoteAtStart.docs \o attempts[1].chunk

\* C4: a run that has read all its staged files invokes create_collection
\* exactly once, after the last file was read and before the first
\* insert_many, also when there is no record to write; a run whose
\* provisioning failed has issued no insert_many.
C4_ProvisionOnceBeforeInserts ==
    /\ Len(createCalls) <= 1
    /\ (createCalls # <<>> => idx > Len(contents))
    /\ (pc \in {"reading", "provisioning"} => (createCalls = <<>> /\ attempts = <<>>))
    /\ (pc \in {"batching", "inserting", "done"} =>
            (Len(createCalls) = 1 /\ collection # Absent))
    /\ (attempts # <<>> => (Len(createCalls) = 1 /\ collection # Absent))
    /\ (ErrorKind = "ProvisioningError" =>
            (pc = "failed" /\ Len(createCalls) = 1 /\ attempts = <<>>))

C4_Witness ==
    /\ pc = "done"
    /\ Len(contents) = 2
    /\ Staged = <<>>
    /\ Len(createCalls) = 1
    /\ attempts = <<>>

\* C5: the stager writes exactly one staged record per input record, the
\* i-th output record being the staging of the i-th input record.
C5_CountAndOrderPreserved ==
    st_pc = "done" =>
        /\ output_file.state = "complete"
        /\ Len(output_file.written) = Len(input_elements)
        /\ \A i \in 1..Len(input_elements) :
              output_file.written[i] = conform_dict(input_elements[i])

C5_Witness ==
    /\ st_pc = "done"
    /\ Len(input_elements) = 2
    /\ input_elements[1] # input_elements[2]
    /\ Len(output_file.written) = 2

\* C6: every staged record has exactly the keys $vector, content and
\* metadata; $vector is the element's embeddings value (None when missing),
\* content its text value (None when missing), metadata the remaining
\* key/value pairs unmodified, without the keys embeddings and text; a
\* missing field raises nothing.
C6_ConformShape ==
    /\ \A i \in 1..Len(conformed_elements) :
          LET e == input_elements[i]
              s == conformed_elements[i]
          IN  /\ DOMAIN s = {"$vector", "content", "metadata"}
              /\ s["$vector"] = (IF "embeddings" \in DOMAIN e THEN e["embeddings"] ELSE None)
              /\ s["content"] = (IF "text" \in DOMAIN e THEN e["text"] ELSE None)
              /\ DOMAIN s["metadata"] = (DOMAIN e) \ {"embeddings", "text"}
              /\ \A k \in DOMAIN s["metadata"] : s["metadata"][k] = e[k]
    /\ (st_pc = "conforming" => Len(conformed_elements) = st_i - 1)
    /\ (st_error # Absent => st_error[1] \in {"ParseError", "IOError"})

C6_Witness ==
    /\ Len(conformed_elements) = 2
    /\ DOMAIN input_elements[1] = {"text", "source"}
    /\ DOMAIN input_elements[2] = {"embeddings"}
    /\ conformed_elements[1]["$vector"] = None
    /\ conformed_elements[2]["content"] = None

\* C7: when the stager run has failed or was interrupted, the output path
\* holds no empty, truncated or partial file: it holds nothing of this call
\* or the complete array.
C7_NoPartialOutputOnFailure ==
    st_pc = "failed" => output_file.state \in {"absent", "complete"}

\* C8: a configuration with embedding_dimension <= 0 or batch_size <= 0 is
\* rejected at construction, so no run reads files, provisions or inserts
\* with a non-positive dimension or batch size.
C8_NonPositiveConfigRejected ==
    pc \in {"reading", "provisioning", "batching", "inserting"} =>
        /\ upload_config[1].embedding_dimension > 0
        /\ upload_config[1].batch_size > 0

\* C9 (as claimed): create_collection carries an indexing option exactly
\* when the configured policy is not None, the empty document included.
C9_PolicySentIffNotNone ==
    \A i \in 1..Len(createCalls) :
        (createCalls[i].options # Absent)
            <=> (upload_config[1].requested_indexing_policy # Absent)

\* C9 (amended): create_collection carries an indexing option exactly when
\* the configured policy is a non-empty document (None and the empty
\* document both send no option), and the option is the configured
\* document itself.
C9_PolicySentIffNonEmpty ==
    \A i \in 1..Len(createCalls) :
        LET policy == upload_config[1].requested_indexing_policy
            sent == createCalls[i].options
        IN  /\ (sent # Absent) <=> (policy # Absent /\ policy[1] # EmptyPolicy)
            /\ (sent # Absent => sent[1] = [indexing |-> policy[1]])

C9_Witness ==
    /\ Len(createCalls) = 1
    /\ upload_config[1].requested_indexing_policy = <<DenyPolicy>>
    /\ createCalls[1].options = <<[indexing |-> DenyPolicy]>>

\* C10: across runs against the same store, a run whose collection already
\* exists with the configured dimension is never refused for its dimension
\* and gets a handle on that collection, while a run whose collection exists
\* with another dimension fails with a provisioning error, issues no insert
\* and leaves the collection and its records as they were.
C10_ProvisioningIdempotent ==
    /\ (ErrorKind = "ProvisioningError" /\ error[1].cause = "dimension") =>
            (remoteAtStart.exists
             /\ remoteAtStart.dimension # upload_config[1].embedding_dimension)
    /\ (collection # Absent /\ remoteAtStart.exists) =>
            /\ remoteAtStart.dimension = upload_config[1].embedding_dimension
            /\ remote.dimension = remoteAtStart.dimension
            /\ Len(remote.docs) >= Len(remoteAtStart.docs)
            /\ SubSeq(remote.docs, 1, Len(remoteAtStart.docs)) = remoteAtStart.docs
    /\ (createCalls # <<>> /\ remoteAtStart.exists
        /\ remoteAtStart.dimension # upload_config[1].embedding_dimension) =>
            /\ pc = "failed"
            /\ ErrorKind = "ProvisioningError"
            /\ attempts = <<>>
            /\ remote = remoteAtStart
    /\ (ErrorKind = "ProvisioningError" => remote = remoteAtStart)

C10_Witness ==
    /\ pc = "done"
    /\ remoteAtStart.exists
    /\ remoteAtStart.docs # <<>>
    /\ attempts # <<>>
    /\ remote.docs = remoteAtStart.docs \o Staged

====
